---------------------------- MODULE Spec2Model ----------------------------
(***************************************************************************)
(* Model of src/script.js: a single-page trivia game.                      *)
(*                                                                         *)
(* The script registers TWO DOMContentLoaded listeners (lines 4-254 and    *)
(* 259-479).  Each one runs checkUsername, fetchQuestions and              *)
(* displayScores and then registers its own submit and click listeners,    *)
(* so every page event runs the corresponding handler twice.  The two      *)
(* copies of every function act alike on the state modelled here; the      *)
(* operators below are mapped to the second copy.                          *)
(*                                                                         *)
(* Strings that pass through the cookie jar are sequences of one-character *)
(* strings, so that splitting, trimming and prefix matching are computed   *)
(* as the code computes them.                                              *)
(***************************************************************************)
EXTENDS Integers, Sequences, FiniteSets

VARIABLES
    page,               \* "unloaded" before DOMContentLoaded, then "loaded"
    listeners,          \* number of submit/click listener pairs registered
    jar,                \* the browser's cookie store: sequence of [name, value]
    usernameValue,      \* #username input: its value
    usernameHidden,     \* #username input: has class "hidden"
    newPlayerHidden,    \* #new-player button: has class "hidden"
    submitDisabled,     \* #submit-game button: disabled
    loadingHidden,      \* #loading-container: has class "hidden"
    questionHidden,     \* #question-container: has class "hidden"
    greetings,          \* <p> elements inserted before the form, in order
    questionContainer,  \* #question-container children: sequence of groups
    checked,            \* per group, index of the checked radio (0 = none)
    triviaScores,       \* localStorage item "triviaScores"
    scoreTable,         \* rows of #score-table tbody
    pending,            \* number of fetches in flight
    clock,              \* current time (for new Date())
    call                \* the last operation and what it observed

vars == <<page, listeners, jar, usernameValue, usernameHidden, newPlayerHidden,
          submitDisabled, loadingHidden, questionHidden, greetings,
          questionContainer, checked, triviaScores, scoreTable, pending,
          clock, call>>

-----------------------------------------------------------------------------
(* Bounds of the model *)

\* longest value handed to setCookie in the cookie-store specification
MaxLen == 3

\* no submission is modelled once this many score entries are stored
MaxScores == 3

\* longest batch handed to displayQuestions in the renderer specification
MaxQuestions == 2

-----------------------------------------------------------------------------
(* JavaScript values and String methods *)

\* null: a one-element sequence that is no string of characters
Null == <<"#null">>

\* !x for x a string or null
Falsy(x) == x = Null \/ x = <<>>

Whitespace == {" "}

RECURSIVE TrimStart(_)
TrimStart(s) ==
    IF s # <<>> /\ Head(s) \in Whitespace THEN TrimStart(Tail(s)) ELSE s

RECURSIVE TrimEnd(_)
TrimEnd(s) ==
    IF s # <<>> /\ s[Len(s)] \in Whitespace
    THEN TrimEnd(SubSeq(s, 1, Len(s) - 1))
    ELSE s

\* String.prototype.trim
Trim(s) == TrimEnd(TrimStart(s))

\* index of the first occurrence of character c in s, 0 when there is none
FirstIndex(s, c) ==
    IF \E i \in 1..Len(s) : s[i] = c
    THEN CHOOSE i \in 1..Len(s) : s[i] = c /\ \A j \in 1..(i - 1) : s[j] # c
    ELSE 0

\* String.prototype.split on a one-character separator
RECURSIVE Split(_, _)
Split(s, c) ==
    LET i == FirstIndex(s, c)
    IN  IF i = 0
        THEN <<s>>
        ELSE <<SubSeq(s, 1, i - 1)>> \o Split(SubSeq(s, i + 1, Len(s)), c)

\* s.indexOf(p) === 0
StartsWith(s, p) == Len(p) <= Len(s) /\ SubSeq(s, 1, Len(p)) = p

\* s.substring(n)
Substring(s, n) == SubSeq(s, n + 1, Len(s))

-----------------------------------------------------------------------------
(* Cookie store *)

UsernameName == <<"u", "s", "e", "r", "n", "a", "m", "e">>

\* the attributes are single tokens of the assigned string
ExpiresFuture == "expires=future"
ExpiresPast == "expires=1970"
PathRoot == "path=/"

\* position of the cookie called name in jar j, 0 when there is none
JarIndex(j, name) ==
    IF \E i \in 1..Len(j) : j[i].name = name
    THEN CHOOSE i \in 1..Len(j) : j[i].name = name
    ELSE 0

\* The browser's handling of  document.cookie = str : the name-value pair is
\* the text before the first ";", name and value are trimmed, an expires
\* attribute in the past removes the cookie, otherwise the cookie is stored
\* over any cookie of the same name.
DocumentCookieSet(j, str) ==
    LET parts == Split(str, ";")
        pair  == parts[1]
        eq    == FirstIndex(pair, "=")
        name  == Trim(SubSeq(pair, 1, eq - 1))
        value == Trim(SubSeq(pair, eq + 1, Len(pair)))
        attrs == {Trim(parts[i]) : i \in 2..Len(parts)}
        k     == JarIndex(j, name)
    IN  IF eq = 0 THEN j
        ELSE IF <<ExpiresPast>> \in attrs
             THEN SelectSeq(j, LAMBDA c : c.name # name)
        ELSE IF k > 0 THEN [j EXCEPT ![k] = [name |-> name, value |-> value]]
        ELSE Append(j, [name |-> name, value |-> value])

\* The browser's value of document.cookie: "name=value" joined by "; "
RECURSIVE DocumentCookieGet(_)
DocumentCookieGet(j) ==
    IF j = <<>> THEN <<>>
    ELSE j[1].name \o <<"=">> \o j[1].value
         \o (IF Len(j) > 1 THEN <<";", " ">> \o DocumentCookieGet(Tail(j))
             ELSE <<>>)

\* setCookie(name, value, days): the jar after the assignment of line 395
setCookie(j, name, value, days) ==
    DocumentCookieSet(j,
        name \o <<"=">> \o value
        \o <<";", " ", IF days > 0 THEN ExpiresFuture ELSE ExpiresPast,
             ";", " ", PathRoot>>)

\* the loop of getCookie over cookies[i..]
RECURSIVE GetCookieFrom(_, _)
GetCookieFrom(cookies, nameEQ) ==
    IF cookies = <<>> THEN Null
    ELSE LET cookie == Trim(Head(cookies))
         IN  IF StartsWith(cookie, nameEQ)
             THEN Substring(cookie, Len(nameEQ))
             ELSE GetCookieFrom(Tail(cookies), nameEQ)

\* getCookie with the value cut one character early (the "=" is kept)
getCookieKeepsEquals(j, name) ==
    GetCookieFrom(Split(DocumentCookieGet(j), ";"), name)

\* getCookie(name) on jar j
getCookie(j, name) ==
    GetCookieFrom(Split(DocumentCookieGet(j), ";"), name \o <<"=">>)

\* the assignment of line 432 in newPlayer
ClearCookieString ==
    UsernameName \o <<"=", ";", " ", ExpiresPast, ";", " ", PathRoot>>

-----------------------------------------------------------------------------
(* JSON text and values *)

\* JSON text is a sequence of tokens; a key token stands for  "key":
Tok(t) == [t |-> t]
TStr(s) == [t |-> "str", v |-> s]
TNum(n) == [t |-> "num", v |-> n]
TKey(name) == [t |-> "key", v |-> name]

\* JavaScript values that JSON can carry
JNull == [k |-> "null"]
JNum(n) == [k |-> "num", v |-> n]
JStr(s) == [k |-> "str", v |-> s]
JArr(items) == [k |-> "arr", v |-> items]
JObj(members) == [k |-> "obj", v |-> members]

\* a thrown exception, as the outcome of a call
Throw == [ok |-> FALSE]

\* JSON.stringify
RECURSIVE JSONstringify(_), StringifyItems(_), StringifyMembers(_)
JSONstringify(val) ==
    CASE val.k = "null" -> <<Tok("null")>>
      [] val.k = "num" -> <<TNum(val.v)>>
      [] val.k = "str" -> <<TStr(val.v)>>
      [] val.k = "arr" -> <<Tok("[")>> \o StringifyItems(val.v) \o <<Tok("]")>>
      [] val.k = "obj" -> <<Tok("{")>> \o StringifyMembers(val.v) \o <<Tok("}")>>

StringifyItems(items) ==
    IF items = <<>> THEN <<>>
    ELSE JSONstringify(Head(items))
         \o (IF Len(items) > 1
             THEN <<Tok(",")>> \o StringifyItems(Tail(items))
             ELSE <<>>)

StringifyMembers(members) ==
    IF members = <<>> THEN <<>>
    ELSE <<TKey(Head(members).key)>> \o JSONstringify(Head(members).val)
         \o (IF Len(members) > 1
             THEN <<Tok(",")>> \o StringifyMembers(Tail(members))
             ELSE <<>>)

\* JSON.parse, by recursive descent; [ok |-> FALSE] is a SyntaxError
RECURSIVE ParseValue(_), ParseItems(_, _), ParseMembers(_, _)
ParseValue(toks) ==
    IF toks = <<>> THEN Throw
    ELSE LET h == Head(toks)
             rest == Tail(toks)
         IN  CASE h.t = "null" -> [ok |-> TRUE, val |-> JNull, rest |-> rest]
               [] h.t = "num" -> [ok |-> TRUE, val |-> JNum(h.v), rest |-> rest]
               [] h.t = "str" -> [ok |-> TRUE, val |-> JStr(h.v), rest |-> rest]
               [] h.t = "[" ->
                    IF rest # <<>> /\ Head(rest).t = "]"
                    THEN [ok |-> TRUE, val |-> JArr(<<>>), rest |-> Tail(rest)]
                    ELSE ParseItems(rest, <<>>)
               [] h.t = "{" ->
                    IF rest # <<>> /\ Head(rest).t = "}"
                    THEN [ok |-> TRUE, val |-> JObj(<<>>), rest |-> Tail(rest)]
                    ELSE ParseMembers(rest, <<>>)
               [] OTHER -> Throw

ParseItems(toks, acc) ==
    LET r == ParseValue(toks)
    IN  IF ~r.ok THEN Throw
        ELSE IF r.rest = <<>> THEN Throw
        ELSE IF Head(r.rest).t = ","
             THEN ParseItems(Tail(r.rest), Append(acc, r.val))
        ELSE IF Head(r.rest).t = "]"
             THEN [ok |-> TRUE, val |-> JArr(Append(acc, r.val)),
                   rest |-> Tail(r.rest)]
        ELSE Throw

ParseMembers(toks, acc) ==
    IF toks = <<>> \/ Head(toks).t # "key" THEN Throw
    ELSE LET r == ParseValue(Tail(toks))
             m == [key |-> Head(toks).v, val |-> r.val]
         IN  IF ~r.ok THEN Throw
             ELSE IF r.rest = <<>> THEN Throw
             ELSE IF Head(r.rest).t = ","
                  THEN ParseMembers(Tail(r.rest), Append(acc, m))
             ELSE IF Head(r.rest).t = "}"
                  THEN [ok |-> TRUE, val |-> JObj(Append(acc, m)),
                        rest |-> Tail(r.rest)]
             ELSE Throw

JSONparse(text) ==
    LET r == ParseValue(text)
    IN  IF r.ok /\ r.rest = <<>> THEN [ok |-> TRUE, val |-> r.val] ELSE Throw

\* truthiness of a JSON value, for  x || []
Truthy(val) ==
    CASE val.k = "null" -> FALSE
      [] val.k = "num" -> val.v # 0
      [] val.k = "str" -> val.v # <<>>
      [] OTHER -> TRUE

\* obj.key: the member's value, or the token "undefined"
Member(obj, key) ==
    IF obj.k = "obj" /\ \E i \in 1..Len(obj.v) : obj.v[i].key = key
    THEN LET i == CHOOSE i \in 1..Len(obj.v) : obj.v[i].key = key
         IN  obj.v[i].val
    ELSE [k |-> "undefined"]

Digits == <<"0", "1", "2", "3", "4", "5", "6", "7", "8", "9">>

\* String(n) for n >= 0
RECURSIVE NumberToString(_)
NumberToString(n) ==
    IF n < 10 THEN <<Digits[n + 1]>>
    ELSE NumberToString(n \div 10) \o <<Digits[(n % 10) + 1]>>

\* the text a cell shows after  cell.textContent = val
TextContent(val) ==
    CASE val.k = "str" -> val.v
      [] val.k = "num" -> NumberToString(val.v)
      [] OTHER -> <<>>

\* new Date().toISOString() at time t
ISOString(t) == <<"T">> \o NumberToString(t)

-----------------------------------------------------------------------------
(* Leaderboard store *)

\* localStorage without / with the item "triviaScores"
NoItem == [present |-> FALSE]
Item(text) == [present |-> TRUE, text |-> text]

\* localStorage.getItem("triviaScores") handed to JSON.parse: null is
\* converted to the text "null"
GetItemText(item) == IF item.present THEN item.text ELSE <<Tok("null")>>

\* JSON.parse(localStorage.getItem("triviaScores")) || []
LoadScores(item) ==
    LET p == JSONparse(GetItemText(item))
    IN  IF ~p.ok THEN Throw
        ELSE IF Truthy(p.val) THEN p
        ELSE [ok |-> TRUE, val |-> JArr(<<>>)]

\* { username, score, date: new Date().toISOString() }
ScoreEntry(username, score, now) ==
    JObj(<<[key |-> "username", val |-> JStr(username)],
           [key |-> "score", val |-> JNum(score)],
           [key |-> "date", val |-> JStr(ISOString(now))]>>)

\* saveScore that starts from an empty list instead of the stored one
saveScoreFromEmpty(item, username, score, now) ==
    [ok |-> TRUE,
     item |-> Item(JSONstringify(JArr(<<ScoreEntry(username, score, now)>>)))]

\* saveScore that puts the new entry in front of the stored ones
saveScoreAtFront(item, username, score, now) ==
    LET scores == LoadScores(item)
    IN  IF ~scores.ok THEN Throw
        ELSE IF scores.val.k # "arr" THEN Throw
        ELSE [ok |-> TRUE,
              item |-> Item(JSONstringify(
                  JArr(<<ScoreEntry(username, score, now)>> \o scores.val.v)))]

\* saveScore(username, score): the item afterwards, or a thrown exception
\* (push is not a function when the parsed value is no array)
saveScore(item, username, score, now) ==
    LET scores == LoadScores(item)
    IN  IF ~scores.ok THEN Throw
        ELSE IF scores.val.k # "arr" THEN Throw
        ELSE [ok |-> TRUE,
              item |-> Item(JSONstringify(
                  JArr(Append(scores.val.v, ScoreEntry(username, score, now)))))]

\* the rows appended by scores.forEach in displayScores
RECURSIVE ScoreRows(_)
ScoreRows(entries) ==
    IF entries = <<>> THEN <<>>
    ELSE <<[username |-> TextContent(Member(Head(entries), "username")),
            score |-> TextContent(Member(Head(entries), "score"))]>>
         \o ScoreRows(Tail(entries))

\* displayScores(): the table body afterwards and whether the call threw.
\* The parse of line 461 precedes the clearing of the table (line 464);
\* forEach is not a function when the parsed value is no array.
displayScores(item, table) ==
    LET scores == LoadScores(item)
    IN  IF ~scores.ok THEN [ok |-> FALSE, table |-> table]
        ELSE IF scores.val.k # "arr" THEN [ok |-> FALSE, table |-> <<>>]
        ELSE [ok |-> TRUE, table |-> ScoreRows(scores.val.v)]

-----------------------------------------------------------------------------
(* Quiz renderer *)

\* Array.prototype.sort with the comparator  () => Math.random() - 0.5 .
\* The comparator ignores its arguments, so the order is decided by the
\* random results alone: bits[k] says whether the k-th call returned a
\* positive number.  The engine sorts a short array by insertion: each
\* element moves left past its neighbour for as long as the comparator
\* says "greater".  Calls beyond the end of bits return "not greater".
RECURSIVE InsertFrom(_, _, _, _)
InsertFrom(a, j, x, bits) ==
    IF j >= 1 /\ bits # <<>> /\ Head(bits)
    THEN InsertFrom(a, j - 1, x, Tail(bits))
    ELSE [arr |-> SubSeq(a, 1, j) \o <<x>> \o SubSeq(a, j + 1, Len(a)),
          bits |-> IF j >= 1 /\ bits # <<>> THEN Tail(bits) ELSE bits]

RECURSIVE SortFrom(_, _, _)
SortFrom(done, todo, bits) ==
    IF todo = <<>> THEN done
    ELSE LET r == InsertFrom(done, Len(done), Head(todo), bits)
         IN  SortFrom(r.arr, Tail(todo), r.bits)

\* a shuffle that copies the last element over the first instead of swapping
RandomSortLosesElement(a, bits) ==
    IF bits # <<>> /\ Head(bits) THEN [a EXCEPT ![1] = a[Len(a)]] ELSE a

RandomSort(a, bits) == SortFrom(<<>>, a, bits)

\* number of comparator calls the sort of n elements can make
Comparisons(n) == (n * (n - 1)) \div 2

\* the radio inputs of one question, in display order
RECURSIVE AnswerInputs(_, _, _)
AnswerInputs(allAnswers, correctAnswer, questionIndex) ==
    IF allAnswers = <<>> THEN <<>>
    ELSE <<[name |-> questionIndex,
            value |-> Head(allAnswers),
            correct |-> Head(allAnswers) = correctAnswer]>>
         \o AnswerInputs(Tail(allAnswers), correctAnswer, questionIndex)

\* createAnswerOptions(correctAnswer, incorrectAnswers, questionIndex)
createAnswerOptions(correctAnswer, incorrectAnswers, questionIndex, bits) ==
    AnswerInputs(RandomSort(<<correctAnswer>> \o incorrectAnswers, bits),
                 correctAnswer, questionIndex)

\* the divs appended by questions.forEach, from index (0-based) on
RECURSIVE QuestionDivs(_, _, _)
QuestionDivs(questions, index, oracle) ==
    IF index >= Len(questions) THEN <<>>
    ELSE LET question == questions[index + 1]
         IN  <<[p |-> question.question,
                inputs |-> createAnswerOptions(question.correct_answer,
                                               question.incorrect_answers,
                                               index, oracle[index + 1])]>>
             \o QuestionDivs(questions, index + 1, oracle)

\* the argument of displayQuestions: data.results, a list of questions, or
\* undefined when the response has no such member
Results(items) == [defined |-> TRUE, items |-> items]
Undefined == [defined |-> FALSE]

\* displayQuestions(questions): the container afterwards and whether the
\* call threw.  The container is cleared (line 305) before forEach is
\* called on the argument (line 307).
displayQuestions(questions, oracle) ==
    IF ~questions.defined
    THEN [ok |-> FALSE, container |-> <<>>]
    ELSE [ok |-> TRUE, container |-> QuestionDivs(questions.items, 0, oracle)]

-----------------------------------------------------------------------------
(* Scorer *)

\* the body of questions.forEach in calculateScore, from div i on, with the
\* running total score
RECURSIVE ScoreFrom(_, _, _, _)
ScoreFrom(container, sel, i, score) ==
    IF i > Len(container) THEN score
    ELSE LET selectedOption == sel[i]
         IN  ScoreFrom(container, sel, i + 1,
                 IF selectedOption # 0
                    /\ container[i].inputs[selectedOption].correct
                 THEN score + 1
                 ELSE score)

\* calculateScore that counts every checked radio, flagged or not
calculateScoreCountsChecked(container, sel) ==
    Cardinality({i \in 1..Len(container) : sel[i] # 0})

\* calculateScore that runs its test once per radio input instead of once
\* per question div
calculateScoreCountsPerInput(container, sel) ==
    Cardinality({ij \in (1..Len(container)) \X (1..4) :
                    /\ ij[2] <= Len(container[ij[1]].inputs)
                    /\ sel[ij[1]] # 0
                    /\ container[ij[1]].inputs[sel[ij[1]]].correct})

\* calculateScore() on the rendered container with the checked radios sel
calculateScore(container, sel) == ScoreFrom(container, sel, 1, 0)

-----------------------------------------------------------------------------
(* Session controller: the handlers, as functions of the page state *)

Bob == <<"B", "o", "b">>
Ada == <<"A", "d", "a">>
Anonymous == <<"A", "n", "o", "n", "y", "m", "o", "u", "s">>

\* `Welcome back, ${username}!`
Greeting(username) ==
    <<"W", "e", "l", "c", "o", "m", "e", " ", "b", "a", "c", "k", ",", " ">>
    \o username \o <<"!">>

\* the part of the state the handlers read and write; writes counts the
\* assignments to document.cookie and ok is FALSE once the handler threw
Cur ==
    [jar |-> jar, usernameValue |-> usernameValue,
     usernameHidden |-> usernameHidden, newPlayerHidden |-> newPlayerHidden,
     submitDisabled |-> submitDisabled, loadingHidden |-> loadingHidden,
     questionHidden |-> questionHidden, greetings |-> greetings,
     triviaScores |-> triviaScores, scoreTable |-> scoreTable,
     pending |-> pending, listeners |-> listeners,
     writes |-> 0, thrown |-> 0, ok |-> TRUE]

checkUsername(s) ==
    LET username == getCookie(s.jar, UsernameName)
    IN  IF ~Falsy(username)
        THEN [s EXCEPT !.usernameHidden = TRUE,
                       !.newPlayerHidden = FALSE,
                       !.greetings = Append(@, Greeting(username))]
        ELSE [s EXCEPT !.usernameHidden = FALSE,
                       !.newPlayerHidden = TRUE]

showLoading(s, isLoading) ==
    [s EXCEPT !.loadingHidden = ~isLoading, !.questionHidden = isLoading]

\* fetchQuestions() up to the call of fetch: one more request in flight
fetchQuestions(s) == [showLoading(s, TRUE) EXCEPT !.pending = @ + 1]

\* displayScores() on the page state
ShowScores(s) ==
    LET r == displayScores(s.triviaScores, s.scoreTable)
    IN  [s EXCEPT !.scoreTable = r.table, !.ok = r.ok]

\* one DOMContentLoaded listener: the listeners of lines 341-342 are
\* registered only when displayScores returned
Listener(s) ==
    LET s1 == ShowScores(fetchQuestions(checkUsername(s)))
    IN  IF s1.ok THEN [s1 EXCEPT !.listeners = @ + 1]
        ELSE [s1 EXCEPT !.thrown = @ + 1, !.ok = TRUE]

\* handleFormSubmit that writes the cookie from the name field even when a
\* username cookie is found
handleFormSubmitAlwaysWrites(s, container, sel, now) ==
    LET username == IF s.usernameValue # <<>> THEN s.usernameValue
                    ELSE Anonymous
        s1       == [s EXCEPT
                        !.jar = setCookie(@, UsernameName, username, 7),
                        !.writes = @ + 1]
        score    == calculateScore(container, sel)
        saved    == saveScore(s1.triviaScores, username, score, now)
        s2       == [s1 EXCEPT !.triviaScores = saved.item]
        s3       == ShowScores(s2)
    IN  IF ~saved.ok THEN [s1 EXCEPT !.thrown = @ + 1]
        ELSE IF ~s3.ok THEN [s3 EXCEPT !.thrown = @ + 1, !.ok = TRUE]
        ELSE fetchQuestions(checkUsername(s3))

\* handleFormSubmit that saves the score under the name field's content
\* whether or not a username cookie is found
handleFormSubmitSavesFieldName(s, container, sel, now) ==
    LET cookie   == getCookie(s.jar, UsernameName)
        username == IF s.usernameValue # <<>> THEN s.usernameValue
                    ELSE Anonymous
        s1       == IF Falsy(cookie)
                    THEN [s EXCEPT
                             !.jar = setCookie(@, UsernameName, username, 7),
                             !.writes = @ + 1]
                    ELSE s
        score    == calculateScore(container, sel)
        saved    == saveScore(s1.triviaScores, username, score, now)
        s2       == [s1 EXCEPT !.triviaScores = saved.item]
        s3       == ShowScores(s2)
    IN  IF ~saved.ok THEN [s1 EXCEPT !.thrown = @ + 1]
        ELSE IF ~s3.ok THEN [s3 EXCEPT !.thrown = @ + 1, !.ok = TRUE]
        ELSE fetchQuestions(checkUsername(s3))

\* handleFormSubmit(event) at time now, grading container with radios sel
handleFormSubmit(s, container, sel, now) ==
    LET cookie   == getCookie(s.jar, UsernameName)
        username == IF ~Falsy(cookie) THEN cookie
                    ELSE IF s.usernameValue # <<>> THEN s.usernameValue
                    ELSE Anonymous
        s1       == IF Falsy(cookie)
                    THEN [s EXCEPT
                             !.jar = setCookie(@, UsernameName, username, 7),
                             !.writes = @ + 1]
                    ELSE s
        score    == calculateScore(container, sel)
        saved    == saveScore(s1.triviaScores, username, score, now)
        s2       == [s1 EXCEPT !.triviaScores = saved.item]
        s3       == ShowScores(s2)
    IN  IF ~saved.ok THEN [s1 EXCEPT !.thrown = @ + 1]
        ELSE IF ~s3.ok THEN [s3 EXCEPT !.thrown = @ + 1, !.ok = TRUE]
        ELSE fetchQuestions(checkUsername(s3))

\* newPlayer that resets the controls but leaves the cookie
newPlayerKeepsCookie(s) ==
    [s EXCEPT !.usernameValue = <<>>,
              !.newPlayerHidden = TRUE,
              !.submitDisabled = FALSE]

\* newPlayer()
newPlayer(s) ==
    [s EXCEPT !.jar = DocumentCookieSet(@, ClearCookieString),
              !.writes = @ + 1,
              !.usernameValue = <<>>,
              !.newPlayerHidden = TRUE,
              !.submitDisabled = FALSE]

\* the submit event: handleFormSubmit runs once per registered listener, in
\* registration order
RECURSIVE SubmitListeners(_, _, _, _, _)
SubmitListeners(s, n, container, sel, now) ==
    IF n = 0 THEN s
    ELSE SubmitListeners(handleFormSubmit(s, container, sel, now), n - 1,
                         container, sel, now)

\* the click event: newPlayer runs once per registered listener
RECURSIVE ClickListeners(_, _)
ClickListeners(s, n) ==
    IF n = 0 THEN s ELSE ClickListeners(newPlayer(s), n - 1)

-----------------------------------------------------------------------------
(* The page: inputs *)

Question(text, correct, incorrect) ==
    [question |-> text, correct_answer |-> correct,
     incorrect_answers |-> incorrect]

\* responses of the question source that carry a results list
Batches ==
    { <<>>,
      <<Question("Q1", "A", <<"B">>), Question("Q2", "C", <<>>),
        Question("Q3", "E", <<>>)>> }

\* the random comparator results for one render: per question, one result
\* for each call the sort can make
Oracles(questions) ==
    { o \in [1..Len(questions) -> UNION {[1..n -> BOOLEAN] : n \in 0..3}] :
        \A i \in 1..Len(questions) :
            Len(o[i]) = Comparisons(1 + Len(questions[i].incorrect_answers)) }

\* what the user can type into the name field
NameInputs == { <<>>, Bob, <<" ">>, <<"a", ";", "b">> }

\* the site's cookies and stored scores when the page is opened
InitJars == { <<>>, <<[name |-> UsernameName, value |-> Bob]>> }

InitItems ==
    { NoItem,
      Item(JSONstringify(JArr(<<ScoreEntry(Ada, 7, 0)>>))),
      Item(<<Tok("["), Tok("{")>>),
      Item(<<TNum(5)>>) }

\* number of entries stored, 0 when the item does not parse to an array
StoredCount ==
    LET r == LoadScores(triviaScores)
    IN  IF r.ok /\ r.val.k = "arr" THEN Len(r.val.v) ELSE 0

-----------------------------------------------------------------------------
(* The page: events *)

domVars == <<usernameValue, usernameHidden, newPlayerHidden, submitDisabled,
             loadingHidden, questionHidden, greetings, scoreTable>>

\* the variables a handler result s assigns
Assign(s) ==
    /\ jar' = s.jar
    /\ usernameValue' = s.usernameValue
    /\ usernameHidden' = s.usernameHidden
    /\ newPlayerHidden' = s.newPlayerHidden
    /\ submitDisabled' = s.submitDisabled
    /\ loadingHidden' = s.loadingHidden
    /\ questionHidden' = s.questionHidden
    /\ greetings' = s.greetings
    /\ triviaScores' = s.triviaScores
    /\ scoreTable' = s.scoreTable
    /\ pending' = s.pending
    /\ listeners' = s.listeners

\* what call records of a handler run: the event, the username cookie read
\* before it, the cookie writes and exceptions during it, the score entries
\* stored and the fetches in flight before it, and the score computed
Record(op, s, score) ==
    [op |-> op, cookie |-> getCookie(jar, UsernameName),
     writes |-> s.writes, thrown |-> s.thrown, stored |-> StoredCount,
     inflight |-> pending, score |-> score]

\* what call records of the completion of a fetch: its outcome and the
\* fetches in flight before it
Settled(op) == [op |-> op, inflight |-> pending]

Init ==
    /\ page = "unloaded"
    /\ listeners = 0
    /\ jar \in InitJars
    /\ usernameValue = <<>>
    /\ usernameHidden = FALSE
    /\ newPlayerHidden = FALSE
    /\ submitDisabled = FALSE
    /\ loadingHidden = FALSE
    /\ questionHidden = FALSE
    /\ greetings = <<>>
    /\ questionContainer = <<>>
    /\ checked = <<>>
    /\ triviaScores \in InitItems
    /\ scoreTable = <<>>
    /\ pending = 0
    /\ clock = 1
    /\ call = [op |-> "init"]

\* DOMContentLoaded: both listeners run
PageLoad ==
    /\ page = "unloaded"
    /\ LET s == Listener(Listener(Cur))
       IN  /\ Assign(s)
           /\ call' = Record("load", s, 0)
    /\ page' = "loaded"
    /\ UNCHANGED <<questionContainer, checked, clock>>

\* the user types v into the visible name field
TypeName(v) ==
    /\ page = "loaded"
    /\ ~usernameHidden
    /\ usernameValue' = v
    /\ call' = [op |-> "type"]
    /\ UNCHANGED <<page, listeners, jar, usernameHidden, newPlayerHidden,
                   submitDisabled, loadingHidden, questionHidden, greetings,
                   questionContainer, checked, triviaScores, scoreTable,
                   pending, clock>>

\* the user checks radio j of question i of the visible quiz
Check(i, j) ==
    /\ page = "loaded"
    /\ ~questionHidden
    /\ i \in 1..Len(questionContainer)
    /\ j \in 1..Len(questionContainer[i].inputs)
    /\ checked' = [checked EXCEPT ![i] = j]
    /\ call' = [op |-> "check"]
    /\ UNCHANGED <<page, listeners, jar, domVars, questionContainer,
                   triviaScores, pending, clock>>

\* the submit event: every registered handleFormSubmit runs
Submit ==
    /\ page = "loaded"
    /\ listeners > 0
    /\ ~submitDisabled
    /\ StoredCount < MaxScores
    /\ LET s == SubmitListeners(Cur, listeners, questionContainer, checked,
                                clock)
       IN  /\ Assign(s)
           /\ call' = Record("submit", s,
                             calculateScore(questionContainer, checked))
    /\ clock' = clock + 1
    /\ UNCHANGED <<page, questionContainer, checked>>

\* a click on the visible "new player" button: every registered newPlayer runs
NewPlayer ==
    /\ page = "loaded"
    /\ listeners > 0
    /\ ~newPlayerHidden
    /\ LET s == ClickListeners(Cur, listeners)
       IN  /\ Assign(s)
           /\ call' = Record("newPlayer", s, 0)
    /\ UNCHANGED <<page, questionContainer, checked, clock>>

\* a fetch resolves with a results list: lines 277-280
FetchResolve(questions, oracle) ==
    /\ page = "loaded"
    /\ pending > 0
    /\ LET r == displayQuestions(Results(questions), oracle)
           s == showLoading([Cur EXCEPT !.pending = @ - 1], FALSE)
       IN  /\ questionContainer' = r.container
           /\ checked' = [i \in 1..Len(r.container) |-> 0]
           /\ Assign(s)
           /\ call' = Settled("resolve")
    /\ UNCHANGED <<page, clock>>

\* a fetch resolving without a results list whose exception nothing catches:
\* the container is cleared and the loading state stays as it is
FetchNoResultsUncaught ==
    /\ page = "loaded"
    /\ pending > 0
    /\ LET r == displayQuestions(Undefined, <<>>)
           s == [Cur EXCEPT !.pending = @ - 1, !.thrown = @ + 1]
       IN  /\ questionContainer' = r.container
           /\ checked' = [i \in 1..Len(r.container) |-> 0]
           /\ Assign(s)
           /\ call' = Settled("noresults")
    /\ UNCHANGED <<page, clock>>

\* a fetch resolves with JSON that has no results member: displayQuestions
\* throws after clearing the container, and the catch of lines 281-284 runs
FetchNoResults ==
    /\ page = "loaded"
    /\ pending > 0
    /\ LET r == displayQuestions(Undefined, <<>>)
           s == showLoading([Cur EXCEPT !.pending = @ - 1], FALSE)
       IN  /\ questionContainer' = r.container
           /\ checked' = [i \in 1..Len(r.container) |-> 0]
           /\ Assign(s)
           /\ call' = Settled("noresults")
    /\ UNCHANGED <<page, clock>>

\* a fetch rejects, or response.json() rejects: the catch of lines 281-284
FetchReject ==
    /\ page = "loaded"
    /\ pending > 0
    /\ LET s == showLoading([Cur EXCEPT !.pending = @ - 1], FALSE)
       IN  /\ Assign(s)
           /\ call' = Settled("reject")
    /\ UNCHANGED <<page, questionContainer, checked, clock>>

Next ==
    \/ PageLoad
    \/ \E v \in NameInputs : TypeName(v)
    \/ \E i \in 1..3, j \in 1..3 : Check(i, j)
    \/ Submit
    \/ NewPlayer
    \/ \E questions \in Batches : \E oracle \in Oracles(questions) :
           FetchResolve(questions, oracle)
    \/ FetchNoResults
    \/ FetchReject

Spec == Init /\ [][Next]_vars

\* the completion of one outstanding fetch, whatever its outcome: it takes
\* one request out of flight
FetchSettle ==
    /\ pending' = pending - 1
    /\ \/ FetchReject
       \/ FetchNoResults
       \/ \E questions \in Batches : \E oracle \in Oracles(questions) :
              FetchResolve(questions, oracle)

\* the page events with the radios of the first question only: no fetch and
\* no handler of the loading state reads a radio, and the radios of the
\* other questions behave alike
NextFair ==
    \/ PageLoad
    \/ \E v \in NameInputs : TypeName(v)
    \/ \E j \in 1..3 : Check(1, j)
    \/ Submit
    \/ NewPlayer
    \/ FetchSettle

\* the page when every issued fetch eventually resolves or rejects: the
\* completion of a fetch stays enabled until it happens, so weak fairness
\* says that no request hangs forever
FairSpec == Init /\ [][NextFair]_vars /\ WF_vars(FetchSettle)

-----------------------------------------------------------------------------
(* The cookie store on its own: setCookie, the clearing write and getCookie *)
(* applied to every short value                                            *)

CookieChars == {"a", ";", " ", "="}

RECURSIVE StringsUpTo(_)
StringsUpTo(n) ==
    IF n = 0 THEN {<<>>}
    ELSE LET S == StringsUpTo(n - 1)
         IN  S \cup {Append(str, c) : str \in S, c \in CookieChars}

CookieValues == StringsUpTo(MaxLen) \cup {Ada, Bob}

\* the variables of the page that a specification of one component leaves
\* alone
Idle ==
    /\ page = "loaded"
    /\ listeners = 0
    /\ usernameValue = <<>>
    /\ usernameHidden = FALSE
    /\ newPlayerHidden = FALSE
    /\ submitDisabled = FALSE
    /\ loadingHidden = TRUE
    /\ questionHidden = FALSE
    /\ greetings = <<>>
    /\ pending = 0

idleVars == <<page, listeners, usernameValue, usernameHidden, newPlayerHidden,
              submitDisabled, loadingHidden, questionHidden, greetings,
              pending>>

InitCookie ==
    /\ Idle
    /\ jar \in InitJars
    /\ questionContainer = <<>>
    /\ checked = <<>>
    /\ triviaScores = NoItem
    /\ scoreTable = <<>>
    /\ clock = 1
    /\ call = [op |-> "init"]

\* setCookie("username", v, 7)
CookieSet(v) ==
    /\ jar' = setCookie(jar, UsernameName, v, 7)
    /\ call' = [op |-> "setCookie", value |-> v]
    /\ UNCHANGED <<idleVars, questionContainer, checked, triviaScores,
                   scoreTable, clock>>

\* the expired write of newPlayer (line 432)
CookieClear ==
    /\ jar' = DocumentCookieSet(jar, ClearCookieString)
    /\ call' = [op |-> "clear"]
    /\ UNCHANGED <<idleVars, questionContainer, checked, triviaScores,
                   scoreTable, clock>>

\* getCookie("username") right after a write
CookieGet ==
    /\ call.op \in {"setCookie", "clear"}
    /\ call' = [op |-> "getCookie", after |-> call,
                ret |-> getCookie(jar, UsernameName)]
    /\ UNCHANGED <<idleVars, jar, questionContainer, checked, triviaScores,
                   scoreTable, clock>>

NextCookie ==
    \/ \E v \in CookieValues : CookieSet(v)
    \/ CookieClear
    \/ CookieGet

SpecCookie == InitCookie /\ [][NextCookie]_vars

-----------------------------------------------------------------------------
(* The leaderboard store on its own: saveScore, the read of displayScores  *)

EntryPool == {ScoreEntry(Ada, 7, 0), ScoreEntry(Bob, 3, 0)}

\* stored leaderboards of up to two entries
Leaderboards ==
    {<<>>} \cup {<<e>> : e \in EntryPool}
           \cup {<<e, f>> : e \in EntryPool, f \in EntryPool}

\* texts that are not valid JSON
CorruptTexts == { <<>>, <<Tok("["), Tok("{")>>, <<Tok("]")>> }

\* valid JSON that is not a list of entries
OtherTexts ==
    { <<Tok("null")>>, <<TNum(0)>>, <<TNum(5)>>,
      JSONstringify(ScoreEntry(Ada, 7, 0)) }

StoreItems ==
    {NoItem} \cup {Item(JSONstringify(JArr(L))) : L \in Leaderboards}
             \cup {Item(text) : text \in CorruptTexts \cup OtherTexts}

StoreNames == {Ada, Bob, <<"a", ";">>}

InitStore ==
    /\ Idle
    /\ jar = <<>>
    /\ questionContainer = <<>>
    /\ checked = <<>>
    /\ triviaScores \in StoreItems
    /\ scoreTable = <<>>
    /\ clock = 1
    /\ call = [op |-> "init"]

\* saveScore(username, score) at time clock
StoreAppend(username, score) ==
    /\ clock <= MaxScores
    /\ LET r == saveScore(triviaScores, username, score, clock)
       IN  /\ triviaScores' = IF r.ok THEN r.item ELSE triviaScores
           /\ call' = [op |-> "saveScore", before |-> triviaScores,
                       entry |-> ScoreEntry(username, score, clock),
                       threw |-> ~r.ok]
    /\ clock' = clock + 1
    /\ UNCHANGED <<idleVars, jar, questionContainer, checked, scoreTable>>

\* loadAll: the read of lines 423 and 461
StoreLoadAll ==
    /\ call.op \in {"init", "saveScore"}
    /\ LET r == LoadScores(triviaScores)
       IN  call' = [op |-> "loadAll", after |-> call, text |-> triviaScores,
                    threw |-> ~r.ok,
                    ret |-> IF r.ok THEN r.val ELSE JNull]
    /\ UNCHANGED <<idleVars, jar, questionContainer, checked, triviaScores,
                   scoreTable, clock>>

\* displayScores()
StoreDisplay ==
    /\ LET r == displayScores(triviaScores, scoreTable)
       IN  /\ scoreTable' = r.table
           /\ call' = [op |-> "displayScores", text |-> triviaScores,
                       threw |-> ~r.ok]
    /\ UNCHANGED <<idleVars, jar, questionContainer, checked, triviaScores,
                   clock>>

NextStore ==
    \/ \E username \in StoreNames, score \in 0..1 :
           StoreAppend(username, score)
    \/ StoreLoadAll
    \/ StoreDisplay

SpecStore == InitStore /\ [][NextStore]_vars

-----------------------------------------------------------------------------
(* The renderer and the scorer on their own: displayQuestions on every     *)
(* short batch, under every outcome of the random comparator               *)

\* the third question has an incorrect answer with the correct answer's text
QuestionPool ==
    { Question("Q1", "A", <<"B">>),
      Question("Q2", "C", <<"D", "E">>),
      Question("Q3", "A", <<"A", "B">>) }

RenderBatches == UNION {[1..n -> QuestionPool] : n \in 0..MaxQuestions}

InitRender ==
    /\ Idle
    /\ jar = <<>>
    /\ questionContainer = <<>>
    /\ checked = <<>>
    /\ triviaScores = NoItem
    /\ scoreTable = <<>>
    /\ clock = 1
    /\ call = [op |-> "init"]

\* displayQuestions(questions)
Render(questions, oracle) ==
    /\ call.op = "init"
    /\ LET r == displayQuestions(Results(questions), oracle)
       IN  /\ questionContainer' = r.container
           /\ checked' = [i \in 1..Len(r.container) |-> 0]
    /\ call' = [op |-> "render", questions |-> questions]
    /\ UNCHANGED <<idleVars, jar, triviaScores, scoreTable, clock>>

\* calculateScore(): it reads the container and the checked radios and
\* assigns nothing but its local score
Score ==
    /\ call' = [op |-> "calculateScore",
                ret |-> calculateScore(questionContainer, checked),
                before |-> <<jar, triviaScores, questionContainer, checked>>]
    /\ UNCHANGED <<idleVars, jar, questionContainer, checked, triviaScores,
                   scoreTable, clock>>

NextRender ==
    \/ \E questions \in RenderBatches : \E oracle \in Oracles(questions) :
           Render(questions, oracle)
    \/ \E i \in 1..MaxQuestions, j \in 1..3 : Check(i, j)
    \/ Score

SpecRender == InitRender /\ [][NextRender]_vars

-----------------------------------------------------------------------------
(* Properties *)

\* the score entries stored, <<>> when the item does not parse to an array
StoredEntries ==
    LET r == LoadScores(triviaScores)
    IN  IF r.ok /\ r.val.k = "arr" THEN r.val.v ELSE <<>>

\* the checked radio of div i carries data-correct
CheckedFlagged(i) ==
    checked[i] # 0 /\ questionContainer[i].inputs[checked[i]].correct

\* number of positions of sequence q that hold x
Occurrences(q, x) == Cardinality({i \in 1..Len(q) : q[i] = x})

\* the values of the radio inputs of div i, in display order
RenderedLabels(i) ==
    [j \in 1..Len(questionContainer[i].inputs) |->
        questionContainer[i].inputs[j].value]

\* C1 (SpecRender): calculateScore returns exactly the number of question
\* divs of the current render whose checked radio carries the correctness
\* flag: N when a flagged radio is checked in every div, 0 when an
\* unflagged radio is checked in every div, 0 when nothing is checked; and
\* the call leaves the cookies, the stored scores and the render as they
\* were.
C1_ScoreCountsFlagged ==
    call.op = "calculateScore" =>
        LET N == Len(questionContainer)
        IN  /\ call.ret = Cardinality({i \in 1..N : CheckedFlagged(i)})
            /\ (\A i \in 1..N : CheckedFlagged(i)) => call.ret = N
            /\ (\A i \in 1..N : checked[i] # 0 /\ ~CheckedFlagged(i))
                   => call.ret = 0
            /\ (\A i \in 1..N : checked[i] = 0) => call.ret = 0
            /\ call.before = <<jar, triviaScores, questionContainer, checked>>

\* C1 witness: a render of two questions graded 1, with a flagged radio
\* checked in one div and an unflagged radio checked in the other
C1_Witness ==
    /\ call.op = "calculateScore"
    /\ Len(questionContainer) = 2
    /\ call.ret = 1
    /\ \E i \in 1..2 : checked[i] # 0 /\ ~CheckedFlagged(i)

\* C2 (SpecRender): rendering a batch of N questions produces exactly N
\* option groups, in input order, each with exactly one radio flagged
\* correct, also when an incorrect answer has the correct answer's text.
C2_OneFlaggedPerGroup ==
    call.op = "render" =>
        /\ Len(questionContainer) = Len(call.questions)
        /\ \A i \in 1..Len(questionContainer) :
            /\ questionContainer[i].p = call.questions[i].question
            /\ Cardinality({j \in 1..Len(questionContainer[i].inputs) :
                   questionContainer[i].inputs[j].correct}) = 1

\* C10 (SpecRender): for every question the multiset of rendered option
\* labels equals the multiset of correctAnswer and incorrectAnswers,
\* whatever the random comparator returns.
C10_ShuffleIsPermutation ==
    call.op = "render" =>
        /\ Len(questionContainer) = Len(call.questions)
        /\ \A i \in 1..Len(questionContainer) :
            LET before == <<call.questions[i].correct_answer>>
                          \o call.questions[i].incorrect_answers
                after  == RenderedLabels(i)
            IN  /\ Len(after) = Len(before)
                /\ \A x \in {before[j] : j \in 1..Len(before)}
                        \cup {after[j] : j \in 1..Len(after)} :
                       Occurrences(after, x) = Occurrences(before, x)

\* C10 witness: a render in which the question with a repeated label is
\* displayed in another order than the input's
C10_Witness ==
    /\ call.op = "render"
    /\ \E i \in 1..Len(questionContainer) :
        /\ call.questions[i].correct_answer = "A"
        /\ call.questions[i].incorrect_answers = <<"A", "B">>
        /\ RenderedLabels(i) = <<"B", "A", "A">>

\* C4 (SpecStore): for a stored leaderboard L and a record r, saveScore(r)
\* followed by loadAll yields L followed by r.
C4_AppendRoundTrip ==
    (call.op = "loadAll" /\ call.after.op = "saveScore") =>
        LET L == LoadScores(call.after.before)
        IN  (L.ok /\ L.val.k = "arr") =>
                /\ ~call.after.threw
                /\ ~call.threw
                /\ call.ret = JArr(Append(L.val.v, call.after.entry))

\* C4 witness: a leaderboard of two entries read back with a third at its end
C4_Witness ==
    /\ call.op = "loadAll"
    /\ call.after.op = "saveScore"
    /\ call.after.before =
           Item(JSONstringify(JArr(<<ScoreEntry(Ada, 7, 0),
                                     ScoreEntry(Bob, 3, 0)>>)))
    /\ call.ret.k = "arr"
    /\ Len(call.ret.v) = 3
    /\ call.ret.v[3] = call.after.entry

\* the item is absent or its text is not valid JSON
AbsentOrCorrupt(item) == ~item.present \/ ~JSONparse(item.text).ok

\* C5 (SpecStore): when the stored item is absent or is not valid JSON, the
\* reads of displayScores and saveScore yield the empty list, nothing is
\* thrown, and a following append stores a leaderboard of one record.
C5_ReadNeverFails ==
    /\ (call.op = "loadAll" /\ AbsentOrCorrupt(call.text)) =>
           ~call.threw /\ call.ret = JArr(<<>>)
    /\ (call.op = "displayScores" /\ AbsentOrCorrupt(call.text)) =>
           ~call.threw
    /\ (call.op = "saveScore" /\ AbsentOrCorrupt(call.before)) =>
           ~call.threw /\ StoredEntries = <<call.entry>>

\* C6 as claimed (SpecCookie): for every value v, setCookie("username", v, 7)
\* followed by getCookie("username") returns v, and after the clearing
\* write getCookie returns null.
C6_RoundTripEveryValue ==
    call.op = "getCookie" =>
        /\ call.after.op = "setCookie" => call.ret = call.after.value
        /\ call.after.op = "clear" => call.ret = Null

\* v has no ";" and neither starts nor ends with whitespace
StoredVerbatim(v) ==
    /\ \A i \in 1..Len(v) : v[i] # ";"
    /\ Trim(v) = v

\* C6 as amended (SpecCookie): for every value v without ";" and without
\* leading or trailing whitespace, setCookie("username", v, 7) followed by
\* getCookie("username") returns v, whatever the cookie held before; after
\* the clearing write getCookie returns null.
C6_RoundTripVerbatim ==
    call.op = "getCookie" =>
        /\ (call.after.op = "setCookie" /\ StoredVerbatim(call.after.value))
               => call.ret = call.after.value
        /\ call.after.op = "clear" => call.ret = Null

\* C6 witness: "Ada" read back after it was written over an earlier value
C6_Witness ==
    /\ call.op = "getCookie"
    /\ call.after.op = "setCookie"
    /\ call.after.value = Ada
    /\ call.ret = Ada
    /\ jar = <<[name |-> UsernameName, value |-> Ada]>>

\* C3 (Spec): from a fresh session, one submission with the name "Bob" and
\* exactly 3 correct selections leaves exactly one record, {Bob, 3}, shows
\* "Welcome back, Bob!" and hides the name entry.
C3_FreshSubmitStoresOneRecord ==
    (/\ call.op = "submit"
     /\ clock = 2
     /\ call.cookie = Null
     /\ call.stored = 0
     /\ usernameValue = Bob
     /\ call.score = 3) =>
        /\ Len(StoredEntries) = 1
        /\ Member(StoredEntries[1], "username") = JStr(Bob)
        /\ Member(StoredEntries[1], "score") = JNum(3)
        /\ \E i \in 1..Len(greetings) : greetings[i] = Greeting(Bob)
        /\ usernameHidden

\* the entries stored by the last handler run all carry the username u
NewEntriesNamed(u) ==
    \A i \in (call.stored + 1)..Len(StoredEntries) :
        Member(StoredEntries[i], "username") = JStr(u)

\* C7 as claimed (Spec): when a username cookie is present, a submission
\* writes no cookie, the cookie keeps its value, and the leaderboard gains
\* a record.
C7_NoWriteWhenCookiePresent ==
    (call.op = "submit" /\ call.cookie # Null) =>
        /\ call.writes = 0
        /\ getCookie(jar, UsernameName) = call.cookie
        /\ Len(StoredEntries) > call.stored

\* C7 as amended (Spec): when a username cookie with a non-empty value is
\* present, a submission writes no cookie, the cookie keeps its value
\* whatever the name field holds, that value is the name of the records
\* stored, and the leaderboard gains a record.
C7_NoWriteWhenCookieNonEmpty ==
    (call.op = "submit" /\ ~Falsy(call.cookie)) =>
        /\ call.writes = 0
        /\ getCookie(jar, UsernameName) = call.cookie
        /\ Len(StoredEntries) > call.stored
        /\ NewEntriesNamed(call.cookie)

\* C7 witness: a submission under the cookie "a" while the name field holds
\* "a;b"
C7_Witness ==
    /\ call.op = "submit"
    /\ call.cookie = <<"a">>
    /\ usernameValue = <<"a", ";", "b">>
    /\ call.writes = 0
    /\ Len(StoredEntries) > call.stored

\* C8 (Spec): the "new player" action on an identified session clears the
\* username cookie, clears the name input and hides the "new player"
\* control; an identity check on the state it leaves finds no identity and
\* shows the name entry.
C8_NewPlayerClears ==
    call.op = "newPlayer" =>
        /\ JarIndex(jar, UsernameName) = 0
        /\ getCookie(jar, UsernameName) = Null
        /\ usernameValue = <<>>
        /\ newPlayerHidden
        /\ LET s == checkUsername(Cur)
           IN  /\ ~s.usernameHidden
               /\ s.newPlayerHidden
               /\ s.greetings = greetings

\* C8 witness: "new player" was clicked in a session identified as Bob
C8_Witness ==
    /\ call.op = "newPlayer"
    /\ call.cookie = Bob
    /\ call.writes = 2
    /\ jar = <<>>

\* C9 (Spec): when a fetch fails, the loading indicator is cleared, no quiz
\* is displayed afterwards and no retry is issued.
C9_FetchFailureShowsNoQuiz ==
    call.op = "reject" =>
        /\ loadingHidden
        /\ questionHidden \/ questionContainer = <<>>
        /\ pending = call.inflight - 1

\* the last handler run was a submit event that arrived outside QUIZ_READY:
\* while a fetch was in flight, or with no fetch in flight and no quiz in the
\* question container
SubmitOutsideQuizReady ==
    /\ call.op = "submit"
    /\ call.inflight > 0 \/ questionContainer = <<>>

\* C11 (Spec): a submit event that arrives while a question fetch is in
\* flight, or when no quiz is on display, appends no record to the
\* leaderboard.
C11_SubmitOnlyWhenQuizReady ==
    SubmitOutsideQuizReady => Len(StoredEntries) = call.stored

\* the name handleFormSubmit derives from the name field (line 355)
FieldName == IF usernameValue # <<>> THEN usernameValue ELSE Anonymous

\* C12 as claimed (Spec): after a submission a username cookie exists and
\* the records appended by the submission carry its value: the name field's
\* content, or "Anonymous" for an empty field, when no cookie existed
\* before, and the existing value when one existed.
C12_RecordNamedAsCookie ==
    call.op = "submit" =>
        /\ getCookie(jar, UsernameName) # Null
        /\ NewEntriesNamed(getCookie(jar, UsernameName))
        /\ call.cookie = Null => getCookie(jar, UsernameName) = FieldName
        /\ call.cookie # Null => getCookie(jar, UsernameName) = call.cookie

\* C12 as amended (Spec): after a submission a username cookie exists; when
\* a cookie with a non-empty value existed before, it keeps that value and
\* every record appended carries it; when none existed, or its value was
\* empty, and the name field has no ";" and no leading or trailing
\* whitespace, the cookie holds the field's content ("Anonymous" for an
\* empty field) and every record appended carries it.
C12_RecordNamedAsStoredCookie ==
    call.op = "submit" =>
        /\ getCookie(jar, UsernameName) # Null
        /\ ~Falsy(call.cookie) =>
               /\ getCookie(jar, UsernameName) = call.cookie
               /\ NewEntriesNamed(call.cookie)
        /\ (Falsy(call.cookie) /\ StoredVerbatim(usernameValue)) =>
               /\ getCookie(jar, UsernameName) = FieldName
               /\ NewEntriesNamed(FieldName)

\* C12 witness: a submission without a cookie and with an empty name field
\* stored records under "Anonymous"
C12_Witness ==
    /\ call.op = "submit"
    /\ call.cookie = Null
    /\ usernameValue = <<>>
    /\ getCookie(jar, UsernameName) = Anonymous
    /\ Len(StoredEntries) > call.stored
    /\ NewEntriesNamed(Anonymous)

\* the score entries of a stored item, <<>> when it does not parse to an array
EntriesOf(item) ==
    LET r == LoadScores(item)
    IN  IF r.ok /\ r.val.k = "arr" THEN r.val.v ELSE <<>>

\* the stored item after a step is the one before it, or its list with
\* entries of time now added at the end
GrowsAtEnd(before, after, now) ==
    \/ after = before
    \/ LET old == EntriesOf(before)
           new == EntriesOf(after)
       IN  /\ Len(new) > Len(old)
           /\ SubSeq(new, 1, Len(old)) = old
           /\ \A i \in (Len(old) + 1)..Len(new) :
                  Member(new[i], "date") = JStr(ISOString(now))

\* C13 (Spec): over every step of every interleaving of page events the
\* stored leaderboard only grows at its end: the entries stored before the
\* step are stored after it, unchanged and at the same positions, and the
\* entries a step adds carry the time of that step, so that insertion order
\* is chronological.
C13_LeaderboardAppendOnly ==
    [][GrowsAtEnd(triviaScores, triviaScores', clock)]_vars

\* C13 witness: a second submit arrived before any re-fetch of the first
\* one settled, and its records follow the ones stored before
C13_Witness ==
    /\ call.op = "submit"
    /\ call.stored >= 2
    /\ call.inflight >= 4
    /\ Len(StoredEntries) > call.stored
    /\ clock = 3

\* the score of stored entry e lies between 0 and n
ScoreWithin(e, n) == \E k \in 0..n : Member(e, "score") = JNum(k)

\* the largest batch the question source returns
LargestBatch ==
    CHOOSE n \in {Len(b) : b \in Batches} : \A b \in Batches : Len(b) <= n

\* C14 (Spec): every record a submission appends carries the integer score
\* computed for the render graded, between 0 and the number of question
\* divs of that render, and 0 when no quiz was rendered; and in every
\* reachable state every record appended since the page was opened has a
\* score between 0 and the size of a batch.
C14_ScoreWithinQuestionCount ==
    /\ call.op = "submit" =>
           \A i \in (call.stored + 1)..Len(StoredEntries) :
               /\ Member(StoredEntries[i], "score") = JNum(call.score)
               /\ ScoreWithin(StoredEntries[i], Len(questionContainer))
    /\ \A i \in 1..Len(StoredEntries) :
           Member(StoredEntries[i], "date") # JStr(ISOString(0)) =>
               ScoreWithin(StoredEntries[i], LargestBatch)

\* C14 witness: the leaderboard holds a record of a submission made before
\* any quiz was rendered, with score 0, and the records of a later
\* submission with every question answered correctly
C14_Witness ==
    /\ call.op = "submit"
    /\ Len(questionContainer) = 3
    /\ call.score = 3
    /\ Len(StoredEntries) > call.stored
    /\ \E i \in 1..call.stored :
           /\ Member(StoredEntries[i], "date") = JStr(ISOString(1))
           /\ Member(StoredEntries[i], "score") = JNum(0)

\* C15 (Spec): in every reachable state in which an issued fetch has
\* neither resolved nor rejected, the loading indicator is shown and the
\* question container is hidden.
C15_LoadingWhileFetchInFlight ==
    pending > 0 => ~loadingHidden /\ questionHidden

\* C16 (FairSpec): when every issued fetch eventually resolves or rejects,
\* each call of fetchQuestions is followed by a state in which the loading
\* indicator is hidden, whatever the outcome of the fetch.
C16_LoadingEventuallyHidden ==
    (pending > 0 /\ ~loadingHidden) ~> loadingHidden

\* C16 witness: the last outstanding fetch resolved without a results list
\* and the loading indicator is hidden
C16_Witness ==
    /\ call.op = "noresults"
    /\ call.inflight = 1
    /\ pending = 0
    /\ loadingHidden

\* C17 (Spec): after every completed handler run (page load, submit, new
\* player) the name entry is visible exactly when no username cookie exists
\* and the "new player" control is visible exactly when one exists.
C17_ControlsMatchCookie ==
    call.op \in {"load", "submit", "newPlayer"} =>
        /\ ~usernameHidden <=> getCookie(jar, UsernameName) = Null
        /\ ~newPlayerHidden <=> getCookie(jar, UsernameName) # Null

\* C18 (Spec): in every reachable state at most one greeting is displayed,
\* a displayed greeting names the current value of the username cookie, and
\* none is displayed when no username cookie exists.
C18_AtMostOneGreeting ==
    /\ Len(greetings) <= 1
    /\ \A i \in 1..Len(greetings) :
           /\ getCookie(jar, UsernameName) # Null
           /\ greetings[i] = Greeting(getCookie(jar, UsernameName))

\* a quiz is rendered and shown
QuizShown == page = "loaded" /\ ~questionHidden /\ questionContainer # <<>>

\* C19 (Spec): each page load and each submission starts exactly one fetch,
\* and the completion of a fetch while a quiz is rendered and shown leaves
\* its questions, the order of its options and the user's selections as
\* they are.
C19_QuizStableUntilSubmit ==
    /\ [](call.op \in {"load", "submit"} => pending = call.inflight + 1)
    /\ [][(QuizShown /\ pending' < pending) =>
              /\ questionContainer' = questionContainer
              /\ checked' = checked]_vars

=============================================================================
